---- MODULE Spec2Model ----
(***************************************************************************)
(* Model of fhir-questionnaire-to-pdf.                                     *)
(*                                                                         *)
(* Two scripts share the questionnaires/ directory:                        *)
(*   - the expansion script (loadResources, getOptionsFromValueSet,        *)
(*     processItems, expandAll) rewrites Questionnaire files in place;     *)
(*   - the generator (loadLibraries, normalizeFHIRData, main loop)         *)
(*     turns every input file into a PDF.                                  *)
(*                                                                         *)
(* JavaScript values are modelled as follows.                              *)
(*   string     a sequence of one-character strings, "" is << >>           *)
(*   undefined  the token Undefined                                        *)
(*   object     a record; an optional key is a slot: << >> when the key is *)
(*              absent, << v >> when it is present with value v            *)
(*   array      a sequence                                                 *)
(*   identity   a parsed resource carries the place it was parsed from     *)
(***************************************************************************)
EXTENDS Integers, Sequences, FiniteSets, TLC

(***************************************************************************)
(* Bounds of the model.                                                    *)
(***************************************************************************)
MaxFiles == 3
MaxRuns == 2

(***************************************************************************)
(* Strings and slots.                                                      *)
(***************************************************************************)
Undefined == <<"undefined">>
None == << >>
Some(v) == <<v>>
Has(slot) == slot # << >>

\* reading obj.key: undefined when the key is absent
Get(slot) == IF slot = << >> THEN Undefined ELSE slot[1]

\* JavaScript truthiness of a string-or-undefined value
Truthy(v) == v # Undefined /\ v # << >>

SetMin(S) == CHOOSE x \in S : \A y \in S : x <= y
SetMax(S) == CHOOSE x \in S : \A y \in S : x >= y

Positions(s, ch) == {i \in 1..Len(s) : s[i] = ch}

\* s.split(ch)[0]
SplitFirst(s, ch) ==
    IF Positions(s, ch) = {} THEN s
    ELSE SubSeq(s, 1, SetMin(Positions(s, ch)) - 1)

\* s.split(ch).pop()
SplitLast(s, ch) ==
    IF Positions(s, ch) = {} THEN s
    ELSE SubSeq(s, SetMax(Positions(s, ch)) + 1, Len(s))

\* url.split('|')[0]
StripVersion(url) == SplitFirst(url, "|")

Str1(a) == <<a>>
Str3(a, b, c) == <<a, b, c>>

(***************************************************************************)
(* Resources of the definitional corpus.                                   *)
(***************************************************************************)
Coding(system, code, display) ==
    [system |-> system, code |-> code, display |-> display]

Res0 ==
    [resourceType |-> "Other", url |-> None, title |-> None, item |-> None,
     expansion |-> None, compose |-> None, concept |-> None, entry |-> None,
     questionnaire |-> None, id |-> None, name |-> None, category |-> None]

Item0 == [linkId |-> "i", answerValueSet |-> None, answerOption |-> None, item |-> None]

uA == Str1("a")
uA1 == Str3("a", "|", "1")
uA2 == Str3("a", "|", "2")
uB == Str1("b")
uS == Str1("s")
uT == Str1("t")
uQ == Str1("q")

cC == Coding(Some(uS), Some(Str1("c")), Some(Str1("C")))
cD == Coding(Some(uT), Some(Str1("d")), None)
kE == Coding(None, Some(Str1("e")), Some(Str1("E")))
kF == Coding(None, Some(Str1("f")), None)

\* a ValueSet with a pre-computed expansion, registered under a versioned url
VsExpanded ==
    [Res0 EXCEPT !.resourceType = "ValueSet", !.url = Some(uA1),
                 !.expansion = Some([contains |-> Some(<<cC, cD>>)])]

\* a second version of the same ValueSet, with another expansion
VsExpanded2 ==
    [Res0 EXCEPT !.resourceType = "ValueSet", !.url = Some(uA2),
                 !.expansion = Some([contains |-> Some(<<cD>>)])]

\* an expansion that is present but empty hides the compose rules
VsEmptyExpansion ==
    [Res0 EXCEPT !.resourceType = "ValueSet", !.url = Some(uA),
                 !.expansion = Some([contains |-> Some(<< >>)]),
                 !.compose = Some([include |-> Some(<<[system |-> Some(uS), concept |-> Some(<<kE>>)]>>)])]

\* compose.include: explicit concepts, a system-only rule, a rule with neither,
\* and the explicit concepts once more
VsCompose ==
    [Res0 EXCEPT !.resourceType = "ValueSet", !.url = Some(uB),
                 !.compose = Some([include |-> Some(<<
                     [system |-> Some(uS), concept |-> Some(<<kE, kF>>)],
                     [system |-> Some(uT), concept |-> None],
                     [system |-> None, concept |-> None],
                     [system |-> Some(uS), concept |-> Some(<<kE>>)] >>)])]

\* compose.include whose only rule names a code system
VsSystemOnly ==
    [Res0 EXCEPT !.resourceType = "ValueSet", !.url = Some(uA),
                 !.compose = Some([include |-> Some(<<
                     [system |-> Some(uT), concept |-> None] >>)])]

CodeSystemT ==
    [Res0 EXCEPT !.resourceType = "CodeSystem", !.url = Some(uT),
                 !.concept = Some(<<kF, kE>>)]

PresetOption == [valueCoding |-> Coding(Some(uS), Some(Str1("p")), Some(Str1("P")))]

Leaf(ref) == [Item0 EXCEPT !.answerValueSet = ref]

\* a tree of depth three whose items reference every url of the corpus
QuestionnaireDeep ==
    [Res0 EXCEPT !.resourceType = "Questionnaire", !.url = Some(uQ),
                 !.item = Some(<<
                     [Item0 EXCEPT !.answerValueSet = Some(uA1),
                                   !.answerOption = Some(<<PresetOption>>),
                                   !.item = Some(<<
                                       [Item0 EXCEPT !.answerValueSet = Some(uB),
                                                     !.item = Some(<<Leaf(Some(uA))>>)],
                                       Leaf(None) >>)],
                     Leaf(Some(uA2)),
                     Leaf(Some(uS)) >>)]

\* a flat questionnaire: an empty reference, a reference to a code system,
\* a kept inline list
QuestionnaireFlat ==
    [Res0 EXCEPT !.resourceType = "Questionnaire", !.url = None,
                 !.item = Some(<<
                     Leaf(Some(<< >>)),
                     [Item0 EXCEPT !.answerValueSet = Some(uT),
                                   !.answerOption = Some(<<PresetOption>>)],
                     Leaf(Some(uA)),
                     [Item0 EXCEPT !.item = Some(<< >>)] >>)]

QuestionnaireNoItems ==
    [Res0 EXCEPT !.resourceType = "Questionnaire", !.url = Some(uQ)]

Bundle(entries) == [Res0 EXCEPT !.resourceType = "Bundle", !.entry = Some(entries)]
Entry(r) == [resource |-> Some(r)]
EntryNoResource == [resource |-> None]

(***************************************************************************)
(* Files.  A file holds text: either text JSON.parse rejects, or the text  *)
(* of a JSON value in some layout.                                         *)
(***************************************************************************)
TextOf(v) == [ok |-> TRUE, fmt |-> "original", value |-> v]
Garbage == [ok |-> FALSE, fmt |-> "original", value |-> Res0]

DefFiles ==
    { TextOf(VsExpanded), TextOf(VsExpanded2), TextOf(VsCompose),
      TextOf(CodeSystemT), TextOf(QuestionnaireDeep), TextOf(QuestionnaireFlat),
      TextOf(QuestionnaireNoItems),
      TextOf(Bundle(<<Entry(QuestionnaireDeep), EntryNoResource, Entry(VsEmptyExpansion)>>)),
      TextOf(Bundle(<<Entry(VsSystemOnly), EntryNoResource, Entry(CodeSystemT)>>)),
      TextOf([Res0 EXCEPT !.resourceType = "Bundle"]),
      Garbage }

SeqsUpTo(S, n) == UNION {[1..k -> S] : k \in 0..n}

(***************************************************************************)
(* State.                                                                  *)
(***************************************************************************)
VARIABLES
    prog,          \* which script this run executes
    pc,            \* position of the script
    run,           \* number of the current run of the script
    disk,          \* questionnaires/: the files, in readdirSync order
    disk0,         \* the directory as it was before the first run
    firstRun,      \* the directory as the first run left it
    resourceMap,   \* part_000: const resourceMap = new Map()
    fi,            \* index of the file the current forEach is at
    json,          \* expandAll: the parsed value of the last file, after processing
    parsed,        \* expandAll: the same value as JSON.parse returned it
    written,       \* expandAll: files handed to fs.writeFileSync in this run
    count,         \* expandAll: let count
    console,       \* lines printed by console.warn / console.error
    questionnaireMap, \* generator: const questionnaireMap = new Map()
    input,         \* input/: the files, in readdirSync order
    ii,            \* index of the input file the for loop is at
    lastRead,      \* index of the input file the loop body last started on
    processedData, \* main loop: const processedData, of the last file normalized
    combinedData,  \* main loop: const combinedData, of the last file assembled
    logFile,       \* the lines log() has emitted
    output,        \* output/: the page.pdf calls that completed, in order
    browser        \* the puppeteer session

generatorVars == <<questionnaireMap, input, ii, lastRead, processedData, combinedData,
                   logFile, output, browser>>

vars == <<prog, pc, run, disk, disk0, firstRun, resourceMap, fi, json, parsed,
          written, count, console, questionnaireMap, input, ii, lastRead,
          processedData, combinedData, logFile, output, browser>>

(***************************************************************************)
(* JSON.parse and JSON.stringify.                                          *)
(***************************************************************************)
\* JSON.parse(text): the value, or a thrown SyntaxError
ParseThrows(file) == ~file.ok
JsonParse(file) == file.value

\* JSON.stringify leaves out every key whose value is undefined
DropUndefined(slot) == IF slot = Some(Undefined) THEN None ELSE slot

StringifyCoding(c) ==
    [system |-> DropUndefined(c.system), code |-> DropUndefined(c.code),
     display |-> DropUndefined(c.display)]

StringifyOptions(slot) ==
    IF Has(slot)
    THEN Some([i \in 1..Len(slot[1]) |-> [valueCoding |-> StringifyCoding(slot[1][i].valueCoding)]])
    ELSE slot

RECURSIVE StringifyItems(_)
StringifyItems(slot) ==
    IF Has(slot)
    THEN Some([i \in 1..Len(slot[1]) |->
              [slot[1][i] EXCEPT !.answerOption = StringifyOptions(@),
                                 !.item = StringifyItems(@)]])
    ELSE slot

StringifyResource(r) == [r EXCEPT !.item = StringifyItems(@)]

StringifyEntry(e) ==
    IF Has(e.resource) THEN [resource |-> Some(StringifyResource(e.resource[1]))] ELSE e

\* JSON.stringify(json, null, 2)
JsonStringify(v) ==
    [ok |-> TRUE, fmt |-> "indent2",
     value |-> IF Has(v.entry)
               THEN [StringifyResource(v) EXCEPT
                        !.entry = Some([i \in 1..Len(v.entry[1]) |-> StringifyEntry(v.entry[1][i])])]
               ELSE StringifyResource(v)]

(***************************************************************************)
(* part_000: loadResources                                                 *)
(***************************************************************************)
EmptyMap == << >>
MapHas(m, k) == k \in DOMAIN m

\* a set that keeps the value a key already has
MapSetFirstWins(m, k, v) == IF k \in DOMAIN m THEN m ELSE m @@ (k :> v)

\* Map.prototype.set
MapSet(m, k, v) == [x \in (DOMAIN m) \cup {k} |-> IF x = k THEN v ELSE m[x]]

\* json.resourceType === 'Bundle' && json.entry ? json.entry.map(e => e.resource) : [json]
\* each element is a slot: an entry without a resource maps to undefined
Flatten(v) ==
    IF v.resourceType = "Bundle" /\ Has(v.entry)
    THEN [i \in 1..Len(v.entry[1]) |-> v.entry[1][i].resource]
    ELSE <<Some(v)>>

\* an object, with the place it was created at as its identity
Obj(f, i, r) == [src |-> [run |-> run, by |-> "definitions", file |-> f, pos |-> i], res |-> r]

\* Register without the second set: only the full url is registered
RegisterFullOnly(m, o) == MapSet(m, Get(o.res.url), o)

\* resourceMap.set(r.url, r); resourceMap.set(r.url.split('|')[0], r)
Register(m, o) ==
    MapSet(MapSet(m, Get(o.res.url), o), StripVersion(Get(o.res.url)), o)

\* items.forEach(r => { if (!r || !r.url) return; ... })
RECURSIVE IndexResources(_, _, _, _)
IndexResources(m, items, f, i) ==
    IF i > Len(items) THEN m
    ELSE IF ~Has(items[i]) \/ ~Truthy(Get(items[i][1].url))
         THEN IndexResources(m, items, f, i + 1)
         ELSE IndexResources(Register(m, Obj(f, i, items[i][1])), items, f, i + 1)

\* one iteration of files.forEach in loadResources
LoadResourcesFile ==
    /\ prog = "expand"
    /\ pc = "load"
    /\ fi <= Len(disk)
    /\ IF ParseThrows(disk[fi])
       THEN /\ console' = console + 1
            /\ UNCHANGED resourceMap
       ELSE /\ resourceMap' = IndexResources(resourceMap, Flatten(JsonParse(disk[fi])), fi, 1)
            /\ UNCHANGED console
    /\ fi' = fi + 1
    /\ UNCHANGED generatorVars
    /\ UNCHANGED <<prog, pc, run, disk, disk0, firstRun, json, parsed, written, count>>

(***************************************************************************)
(* part_000: getOptionsFromValueSet, processItems                          *)
(***************************************************************************)
\* map.get(k) as a slot: << >> for undefined
MapGet(m, k) == IF MapHas(m, k) THEN Some(m[k]) ELSE None

\* { valueCoding: { system: system, code: c.code, display: c.display } }
Option(system, c) ==
    [valueCoding |-> [system |-> Some(system), code |-> Some(Get(c.code)),
                      display |-> Some(Get(c.display))]]

\* ContainsOptions with display taken from c.code
ContainsOptionsCodeAsDisplay(contains) ==
    [i \in 1..Len(contains) |->
        [valueCoding |-> [system |-> Some(Get(contains[i].system)),
                          code |-> Some(Get(contains[i].code)),
                          display |-> Some(Get(contains[i].code))]]]

\* vs.expansion.contains.map(c => ...)
ContainsOptions(contains) ==
    [i \in 1..Len(contains) |-> Option(Get(contains[i].system), contains[i])]

\* what one rule of compose.include pushes
IncludeOptions(inc) ==
    IF Has(inc.concept)
    THEN [i \in 1..Len(inc.concept[1]) |-> Option(Get(inc.system), inc.concept[1][i])]
    ELSE IF Truthy(Get(inc.system))
         THEN LET cs == MapGet(resourceMap, Get(inc.system))
              IN  IF Has(cs) /\ Has(cs[1].res.concept)
                  THEN [i \in 1..Len(cs[1].res.concept[1]) |->
                           Option(Get(inc.system), cs[1].res.concept[1][i])]
                  ELSE << >>
         ELSE << >>

\* ComposeOptions with each rule's options put in front of the list (unshift)
RECURSIVE ComposeOptionsReversed(_, _)
ComposeOptionsReversed(include, i) ==
    IF i > Len(include) THEN << >>
    ELSE ComposeOptionsReversed(include, i + 1) \o IncludeOptions(include[i])

\* vs.compose.include.forEach(inc => ...)
RECURSIVE ComposeOptions(_, _)
ComposeOptions(include, i) ==
    IF i > Len(include) THEN << >>
    ELSE IncludeOptions(include[i]) \o ComposeOptions(include, i + 1)

\* the options accumulated for a resolved value set
OptionsOf(vs) ==
    IF Has(vs.expansion) /\ Has(vs.expansion[1].contains)
    THEN ContainsOptions(vs.expansion[1].contains[1])
    ELSE IF Has(vs.compose) /\ Has(vs.compose[1].include)
         THEN ComposeOptions(vs.compose[1].include[1], 1)
         ELSE << >>

\* getOptionsFromValueSet with "return options" as its last line
GetOptionsFromValueSetNeverNull(vsUrl) ==
    LET vs == MapGet(resourceMap, StripVersion(vsUrl))
    IN  IF ~Has(vs) THEN None ELSE Some(OptionsOf(vs[1].res))

\* returns a slot: << >> for null
GetOptionsFromValueSet(vsUrl) ==
    LET cleanUrl == StripVersion(vsUrl)
        vs == MapGet(resourceMap, cleanUrl)
    IN  IF ~Has(vs) THEN None
        ELSE IF Len(OptionsOf(vs[1].res)) > 0 THEN Some(OptionsOf(vs[1].res)) ELSE None

\* ExpandItem that adds to the inline list and keeps the reference
ExpandItemAppends(item) ==
    IF Truthy(Get(item.answerValueSet))
    THEN LET options == GetOptionsFromValueSet(Get(item.answerValueSet))
         IN  IF Has(options)
             THEN [item EXCEPT !.answerOption =
                      Some((IF Has(item.answerOption) THEN item.answerOption[1] ELSE << >>)
                           \o options[1])]
             ELSE item
    ELSE item

\* the body of items.forEach, after the recursion into item.item
ExpandItem(item) ==
    IF Truthy(Get(item.answerValueSet))
    THEN LET options == GetOptionsFromValueSet(Get(item.answerValueSet))
         IN  IF Has(options)
             THEN [item EXCEPT !.answerOption = Some(options[1]), !.answerValueSet = None]
             ELSE item
    ELSE item

\* processItems(items), items given as the slot holding the array
RECURSIVE ProcessItems(_)
ProcessItems(items) ==
    IF ~Has(items) THEN items
    ELSE Some([i \in 1..Len(items[1]) |->
              ExpandItem([items[1][i] EXCEPT !.item = ProcessItems(@)])])

(***************************************************************************)
(* part_000: expandAll                                                     *)
(***************************************************************************)
\* loadResources() has returned; the loop over the copies of the indexed
\* questionnaires changes nothing that outlives it; let count = 0
StartRescan ==
    /\ prog = "expand"
    /\ pc = "load"
    /\ fi > Len(disk)
    /\ pc' = "rescan"
    /\ fi' = 1
    /\ count' = 0
    /\ written' = {}
    /\ UNCHANGED generatorVars
    /\ UNCHANGED <<prog, run, disk, disk0, firstRun, resourceMap, json, parsed, console>>

IsQuestionnaire(slot) == Has(slot) /\ slot[1].resourceType = "Questionnaire"

\* json.entry.forEach(e => { if (e.resource && ...) processItems(e.resource.item) })
ExpandEntry(e) ==
    IF IsQuestionnaire(e.resource)
    THEN [resource |-> Some([e.resource[1] EXCEPT !.item = ProcessItems(@)])]
    ELSE e

ExpandBundle(v) ==
    [v EXCEPT !.entry = Some([i \in 1..Len(v.entry[1]) |-> ExpandEntry(v.entry[1][i])])]

\* Changed without the test of the resource type
ChangedAnyResource(v) == \E i \in 1..Len(v.entry[1]) : Has(v.entry[1][i].resource)

\* let changed
Changed(v) == \E i \in 1..Len(v.entry[1]) : IsQuestionnaire(v.entry[1][i].resource)

\* one iteration of files.forEach in expandAll
ExpandFile ==
    /\ prog = "expand"
    /\ pc = "rescan"
    /\ fi <= Len(disk)
    /\ IF ParseThrows(disk[fi])
       THEN /\ console' = console + 1
            /\ UNCHANGED <<disk, json, parsed, written, count>>
       ELSE LET v == JsonParse(disk[fi])
            IN  /\ parsed' = Some(v)
                /\ UNCHANGED console
                /\ IF v.resourceType = "Questionnaire"
                   THEN /\ json' = Some([v EXCEPT !.item = ProcessItems(@)])
                        /\ disk' = [disk EXCEPT ![fi] = JsonStringify(json'[1])]
                        /\ written' = written \cup {fi}
                        /\ count' = count + 1
                   ELSE IF v.resourceType = "Bundle" /\ Has(v.entry)
                        THEN /\ json' = Some(ExpandBundle(v))
                             /\ IF Changed(v)
                                THEN /\ disk' = [disk EXCEPT ![fi] = JsonStringify(json'[1])]
                                     /\ written' = written \cup {fi}
                                     /\ count' = count + 1
                                ELSE UNCHANGED <<disk, written, count>>
                        ELSE /\ json' = Some(v)
                             /\ UNCHANGED <<disk, written, count>>
    /\ fi' = fi + 1
    /\ UNCHANGED generatorVars
    /\ UNCHANGED <<prog, pc, run, disk0, firstRun, resourceMap>>

\* files.forEach has returned; console.log of the count
FinishExpand ==
    /\ prog = "expand"
    /\ pc = "rescan"
    /\ fi > Len(disk)
    /\ pc' = "done"
    /\ firstRun' = IF run = 1 THEN disk ELSE firstRun
    /\ UNCHANGED generatorVars
    /\ UNCHANGED <<prog, run, disk, disk0, resourceMap, fi, json, parsed, written, count, console>>

\* the script is started again on the directory it left behind
RunAgain ==
    /\ prog = "expand"
    /\ pc = "done"
    /\ run < MaxRuns
    /\ run' = run + 1
    /\ pc' = "load"
    /\ fi' = 1
    /\ resourceMap' = EmptyMap
    /\ json' = None
    /\ parsed' = None
    /\ written' = {}
    /\ count' = 0
    /\ console' = 0
    /\ UNCHANGED generatorVars
    /\ UNCHANGED <<prog, disk, disk0, firstRun>>

InitExpand ==
    /\ prog = "expand"
    /\ pc = "load"
    /\ run = 1
    /\ disk \in SeqsUpTo(DefFiles, MaxFiles)
    /\ disk0 = disk
    /\ firstRun = disk
    /\ resourceMap = EmptyMap
    /\ fi = 1
    /\ json = None
    /\ parsed = None
    /\ written = {}
    /\ count = 0
    /\ console = 0
    /\ questionnaireMap = EmptyMap
    /\ input = << >>
    /\ ii = 1
    /\ lastRead = 0
    /\ processedData = None
    /\ combinedData = None
    /\ logFile = << >>
    /\ output = << >>
    /\ browser = "none"

NextExpand ==
    \/ LoadResourcesFile
    \/ StartRescan
    \/ ExpandFile
    \/ FinishExpand
    \/ RunAgain

SpecExpand == InitExpand /\ [][NextExpand]_vars

(***************************************************************************)
(* Properties of the expansion script.                                     *)
(***************************************************************************)
HasVersion(url) == Positions(url, "|") # {}

\* loadResources, respectively loadLibraries, has returned
IndexBuilt ==
    \/ prog = "expand" /\ pc \in {"rescan", "done"}
    \/ prog = "generate" /\ pc \notin {"start", "load"}

\* the index of the script that runs
Index == IF prog = "expand" THEN resourceMap ELSE questionnaireMap

\* the resources the index holds
Indexed(m) == {m[k] : k \in DOMAIN m}

\* o2 was parsed after o1
LoadedAfter(o1, o2) ==
    \/ o2.src.file > o1.src.file
    \/ o2.src.file = o1.src.file /\ o2.src.pos > o1.src.pos

\* the places of file f whose resource the running script registers
RegisteredIn(f) ==
    LET items == Flatten(JsonParse(disk[f]))
    IN  {i \in 1..Len(items) :
            IF prog = "expand"
            THEN Has(items[i]) /\ Truthy(Get(items[i][1].url))
            ELSE /\ \A j \in 1..i : Has(items[j])
                 /\ items[i][1].resourceType = "Questionnaire"
                 /\ Truthy(Get(items[i][1].url))}

\* every resource the loader registers, whether or not the index still holds it
Registered ==
    UNION { IF ParseThrows(disk[f]) THEN {}
            ELSE {Obj(f, i, Flatten(JsonParse(disk[f]))[i][1]) : i \in RegisteredIn(f)} :
            f \in 1..Len(disk) }

SameByEitherForm(m, o) ==
    MapGet(m, Get(o.res.url)) = MapGet(m, StripVersion(Get(o.res.url)))

\* a resource loaded after o shares its version-stripped url under another full url
Shadowed(o) ==
    \E o2 \in Registered :
        /\ LoadedAfter(o, o2)
        /\ StripVersion(Get(o2.res.url)) = StripVersion(Get(o.res.url))
        /\ Get(o2.res.url) # Get(o.res.url)

\* C1, as stated: once the index is built, every indexed resource whose url
\* has a |version suffix is returned both by its full url and by its
\* version-stripped url.
C1_BothFormsSameResource ==
    IndexBuilt =>
        \A o \in Indexed(Index) :
            HasVersion(Get(o.res.url)) => SameByEitherForm(Index, o)

\* C1, amended: the full url returns the resource, and the version-stripped
\* url returns the same resource exactly when no resource loaded later
\* shares the version-stripped url under a different full url.
C1_BothFormsUnlessShadowed ==
    IndexBuilt =>
        \A o \in Indexed(Index) :
            HasVersion(Get(o.res.url)) =>
                /\ MapGet(Index, Get(o.res.url)) = Some(o)
                /\ SameByEitherForm(Index, o) <=> ~Shadowed(o)

\* the index holds a versioned resource that both forms return, and one
\* that a later resource shadows
C1_Witness ==
    /\ IndexBuilt
    /\ \E o1, o2 \in Indexed(Index) :
          /\ HasVersion(Get(o1.res.url)) /\ HasVersion(Get(o2.res.url))
          /\ SameByEitherForm(Index, o1)
          /\ ~SameByEitherForm(Index, o2)

\* the items processItems visited in the last file, each paired with the item
\* it was before, and its depth in the tree
RECURSIVE ItemPairs(_, _, _)
ItemPairs(before, after, depth) ==
    IF ~Has(before) THEN {}
    ELSE UNION {
            {<<before[1][i], after[1][i], depth>>}
              \cup ItemPairs(before[1][i].item, after[1][i].item, depth + 1) :
            i \in 1..Len(before[1]) }

Visited ==
    IF ~(prog = "expand" /\ pc \in {"rescan", "done"} /\ Has(parsed) /\ Has(json)) THEN {}
    ELSE IF parsed[1].resourceType = "Questionnaire"
         THEN ItemPairs(parsed[1].item, json[1].item, 1)
         ELSE IF parsed[1].resourceType = "Bundle" /\ Has(parsed[1].entry)
              THEN UNION { IF IsQuestionnaire(parsed[1].entry[1][i].resource)
                           THEN ItemPairs(parsed[1].entry[1][i].resource[1].item,
                                          json[1].entry[1][i].resource[1].item, 1)
                           ELSE {} : i \in 1..Len(parsed[1].entry[1]) }
              ELSE {}

\* the values an option list carries, key by key
OptionValues(options) ==
    [i \in 1..Len(options) |->
        <<Get(options[i].valueCoding.system), Get(options[i].valueCoding.code),
          Get(options[i].valueCoding.display)>>]

\* the resource the item's reference resolves to, as a slot
Resolved(item) == MapGet(resourceMap, StripVersion(Get(item.answerValueSet)))

HasContains(r) == Has(r.expansion) /\ Has(r.expansion[1].contains)

\* C2: an item visited at any depth whose answerValueSet resolves to a
\* ValueSet with a non-empty expansion.contains ends with answerOption equal
\* to that list, entry by entry and in order, as {system, code, display},
\* and without an answerValueSet key.
C2_ExpansionInlined ==
    \A p \in Visited :
        (/\ Truthy(Get(p[1].answerValueSet))
         /\ Has(Resolved(p[1]))
         /\ Resolved(p[1])[1].res.resourceType = "ValueSet"
         /\ HasContains(Resolved(p[1])[1].res)
         /\ Len(Resolved(p[1])[1].res.expansion[1].contains[1]) > 0)
        => LET contains == Resolved(p[1])[1].res.expansion[1].contains[1]
           IN  /\ Has(p[2].answerOption)
               /\ OptionValues(p[2].answerOption[1]) =
                    [i \in 1..Len(contains) |->
                        <<Get(contains[i].system), Get(contains[i].code),
                          Get(contains[i].display)>>]
               /\ ~Has(p[2].answerValueSet)

C2_Witness ==
    \E p \in Visited :
        /\ p[3] >= 3
        /\ Truthy(Get(p[1].answerValueSet))
        /\ Has(Resolved(p[1]))
        /\ HasContains(Resolved(p[1])[1].res)
        /\ Len(Resolved(p[1])[1].res.expansion[1].contains[1]) > 1
        /\ ~Has(p[2].answerValueSet)

\* C3: when the version-stripped reference finds no ValueSet, or the options
\* accumulated for it are empty, getOptionsFromValueSet returns null and the
\* item keeps its answerValueSet and its answerOption; no item is ever
\* assigned an empty answerOption list.
C3_UnresolvedLeftAlone ==
    \A p \in Visited :
        /\ (/\ Truthy(Get(p[1].answerValueSet))
            /\ \/ ~Has(Resolved(p[1]))
               \/ Resolved(p[1])[1].res.resourceType # "ValueSet"
               \/ OptionsOf(Resolved(p[1])[1].res) = << >>)
           => /\ GetOptionsFromValueSet(Get(p[1].answerValueSet)) = None
              /\ p[2].answerValueSet = p[1].answerValueSet
              /\ p[2].answerOption = p[1].answerOption
        /\ p[2].answerOption # p[1].answerOption
           => Has(p[2].answerOption) /\ Len(p[2].answerOption[1]) > 0

C3_Witness ==
    /\ \E p \in Visited :
          /\ Truthy(Get(p[1].answerValueSet))
          /\ ~Has(Resolved(p[1]))
          /\ Has(p[2].answerValueSet)
    /\ \E p \in Visited :
          /\ Truthy(Get(p[1].answerValueSet))
          /\ Has(Resolved(p[1]))
          /\ Resolved(p[1])[1].res.resourceType = "ValueSet"
          /\ OptionsOf(Resolved(p[1])[1].res) = << >>
          /\ Has(p[2].answerValueSet)
    /\ \E p \in Visited : p[2].answerOption # p[1].answerOption

\* what the specification lets one rule of compose.include contribute
RuleContribution(inc) ==
    IF Has(inc.concept)
    THEN [i \in 1..Len(inc.concept[1]) |->
            <<Get(inc.system), Get(inc.concept[1][i].code), Get(inc.concept[1][i].display)>>]
    ELSE IF Truthy(Get(inc.system)) /\ MapHas(resourceMap, Get(inc.system))
            /\ Has(resourceMap[Get(inc.system)].res.concept)
         THEN LET concept == resourceMap[Get(inc.system)].res.concept[1]
              IN  [i \in 1..Len(concept) |->
                      <<Get(inc.system), Get(concept[i].code), Get(concept[i].display)>>]
         ELSE << >>

\* the contributions of the first n rules, in rule order
RECURSIVE Concatenation(_, _)
Concatenation(include, n) ==
    IF n = 0 THEN << >>
    ELSE Concatenation(include, n - 1) \o RuleContribution(include[n])

ThroughCompose(r) ==
    /\ r.resourceType = "ValueSet"
    /\ ~HasContains(r)
    /\ Has(r.compose) /\ Has(r.compose[1].include)

ExpectedOf(r) == Concatenation(r.compose[1].include[1], Len(r.compose[1].include[1]))

\* C4: for a ValueSet resolved through compose.include the options returned
\* are the concatenation, in rule order and concept order, of the explicit
\* concepts of each rule under the rule's system and, for a rule with only
\* a system, the concepts of the resource indexed under that system; other
\* rules add nothing, duplicates stay, nothing is sorted (null stands for
\* the empty concatenation); a visited item that resolves this way carries
\* exactly that list.
C4_ComposeConcatenation ==
    /\ (prog = "expand" /\ IndexBuilt) =>
          \A k \in DOMAIN resourceMap :
              (~HasVersion(k) /\ ThroughCompose(resourceMap[k].res)) =>
                  LET result == GetOptionsFromValueSet(k)
                      expected == ExpectedOf(resourceMap[k].res)
                  IN  IF expected = << >> THEN result = None
                      ELSE Has(result) /\ OptionValues(result[1]) = expected
    /\ \A p \in Visited :
          (/\ Truthy(Get(p[1].answerValueSet))
           /\ Has(Resolved(p[1]))
           /\ ThroughCompose(Resolved(p[1])[1].res)
           /\ ExpectedOf(Resolved(p[1])[1].res) # << >>)
          => /\ Has(p[2].answerOption)
             /\ OptionValues(p[2].answerOption[1]) = ExpectedOf(Resolved(p[1])[1].res)

\* both kinds of rule contribute, a rule contributes nothing, and an option
\* occurs twice in the list an item received
C4_Witness ==
    \E p \in Visited :
        /\ Truthy(Get(p[1].answerValueSet))
        /\ Has(Resolved(p[1]))
        /\ ThroughCompose(Resolved(p[1])[1].res)
        /\ Has(p[2].answerOption)
        /\ LET include == Resolved(p[1])[1].res.compose[1].include[1]
               values == OptionValues(p[2].answerOption[1])
           IN  /\ \E i \in 1..Len(include) :
                     Has(include[i].concept) /\ RuleContribution(include[i]) # << >>
               /\ \E i \in 1..Len(include) :
                     ~Has(include[i].concept) /\ RuleContribution(include[i]) # << >>
               /\ \E i \in 1..Len(include) : RuleContribution(include[i]) = << >>
               /\ \E i, j \in 1..Len(values) : i < j /\ values[i] = values[j]

\* expandAll's treatment of one parsed file, applied to a value
Reexpand(v) ==
    IF v.resourceType = "Questionnaire" THEN [v EXCEPT !.item = ProcessItems(@)]
    ELSE IF v.resourceType = "Bundle" /\ Has(v.entry) THEN ExpandBundle(v)
    ELSE v

\* C5: expanding an expanded tree again changes nothing, and a second run of
\* the script over the directory the first run left writes the same files.
C5_Idempotent ==
    /\ (prog = "expand" /\ pc \in {"rescan", "done"} /\ Has(json))
          => Reexpand(json[1]) = json[1]
    /\ (prog = "expand" /\ run = 2 /\ pc \in {"rescan", "done"})
          => \A f \in 1..(fi - 1) : disk[f] = firstRun[f]

\* the second run is over, it wrote files, and the first run had changed them
C5_Witness ==
    /\ prog = "expand" /\ run = 2 /\ pc = "done"
    /\ \E f \in written : firstRun[f].value # disk0[f].value

\* the file holds a Questionnaire: bare, or as the resource of a bundle entry
HoldsQuestionnaire(file) ==
    /\ ~ParseThrows(file)
    /\ \/ JsonParse(file).resourceType = "Questionnaire"
       \/ /\ JsonParse(file).resourceType = "Bundle"
          /\ Has(JsonParse(file).entry)
          /\ \E i \in 1..Len(JsonParse(file).entry[1]) :
                LET e == JsonParse(file).entry[1][i]
                IN  Has(e.resource) /\ e.resource[1].resourceType = "Questionnaire"

\* C6: expandAll writes a file back if and only if it is a bare Questionnaire
\* or a Bundle with at least one Questionnaire entry; any other file is
\* left as it was.
C6_WrittenIffQuestionnaire ==
    (prog = "expand" /\ pc \in {"rescan", "done"}) =>
        \A f \in 1..(fi - 1) :
            /\ f \in written <=> HoldsQuestionnaire(disk0[f])
            /\ ~HoldsQuestionnaire(disk0[f]) => disk[f] = disk0[f]

C6_Witness ==
    /\ prog = "expand" /\ pc = "done"
    /\ \E f \in written : disk0[f].value.resourceType = "Bundle"
    /\ \E f \in written : disk0[f].value.resourceType = "Questionnaire"
    /\ \E f \in (1..Len(disk)) \ written :
          /\ ~ParseThrows(disk0[f])
          /\ disk0[f].value.resourceType = "Bundle"
          /\ Has(disk0[f].value.entry)

(***************************************************************************)
(* generate_questionnaireresponse_pdf.js: the definitions and the inputs   *)
(***************************************************************************)
MaxDefinitions == 2
MaxInputs == 2

Null == <<"null">>

Str5(a, b, c, d, e) == <<a, b, c, d, e>>

uXQ == Str3("x", "/", "q")
uXQ1 == Str5("x", "/", "q", "|", "1")
uXQ2 == Str5("x", "/", "q", "|", "2")
uXQ3 == Str5("x", "/", "q", "|", "3")
uYSlash == <<"y", "/">>
uVersionPath == Str5("y", "|", "1", "/", "w")

LibTitled ==
    [Res0 EXCEPT !.resourceType = "Questionnaire", !.url = Some(uXQ1),
                 !.title = Some(Str1("T")), !.item = Some(<<Leaf(None)>>)]
LibUntitled ==
    [Res0 EXCEPT !.resourceType = "Questionnaire", !.url = Some(uXQ2),
                 !.item = Some(<<Leaf(None)>>)]
LibEmptyTitle ==
    [Res0 EXCEPT !.resourceType = "Questionnaire", !.url = Some(uXQ),
                 !.title = Some(<< >>)]
LibValueSet ==
    [Res0 EXCEPT !.resourceType = "ValueSet", !.url = Some(uXQ3)]

\* a bundle that registers its first Questionnaire and then meets an entry
\* without a resource
LibBundle ==
    Bundle(<<Entry(LibValueSet), Entry(LibEmptyTitle), EntryNoResource, Entry(LibTitled)>>)

LibraryFiles == {TextOf(LibTitled), TextOf(LibUntitled), TextOf(LibBundle), Garbage}

PatientN == [Res0 EXCEPT !.resourceType = "Patient", !.name = Some(Str1("n"))]
PatientM == [Res0 EXCEPT !.resourceType = "Patient", !.name = Some(Str1("m"))]
CarePlanK == [Res0 EXCEPT !.resourceType = "CarePlan", !.category = Some(Str1("k"))]
CarePlanL == [Res0 EXCEPT !.resourceType = "CarePlan", !.category = Some(Str1("l"))]
Response(ref) == [Res0 EXCEPT !.resourceType = "QuestionnaireResponse", !.questionnaire = ref]
Embedded ==
    [Res0 EXCEPT !.resourceType = "Questionnaire", !.title = Some(Str1("E")),
                 !.item = Some(<< >>)]

\* three responses among patients and care plans
PayloadFull ==
    Bundle(<<Entry(Response(Some(uXQ1))), EntryNoResource, Entry(PatientN),
             Entry(CarePlanK), Entry(Response(Some(uXQ3))), Entry(PatientM),
             Entry(CarePlanL), Entry(Response(Some(uYSlash)))>>)

\* a bundle that brings its own Questionnaire, and neither Patient nor CarePlan
PayloadEmbedded ==
    [Bundle(<<Entry(Response(None)), Entry(Embedded), Entry(Response(Some(uVersionPath))),
              Entry(Response(Some(uXQ2)))>>) EXCEPT !.id = Some(Str1("i"))]

\* the text null: JSON.parse returns null, which has no properties
NullJson == [Res0 EXCEPT !.resourceType = "null"]

Payloads ==
    { PayloadFull, PayloadEmbedded, Response(Some(uXQ2)),
      [Res0 EXCEPT !.resourceType = "Bundle"], NullJson }

InputTexts == {[ok |-> TRUE, value |-> v] : v \in Payloads} \cup {[ok |-> FALSE, value |-> Res0]}

\* file names, without the .json they end with, in the order readdirSync
\* lists them
InputNames == << <<"A", " ", "b">>, <<"_", ".", "B">>, <<"a", "-", "b">> >>

InputFile(name, text) == [name |-> name, ok |-> text.ok, value |-> text.value]

\* o lists the positions of InputNames in increasing order
Increasing(o) == \A i, j \in 1..Len(o) : i < j => o[i] < o[j]

\* the listings of input/: no two files of a directory have the same name
InputDirs ==
    UNION { {[k \in 1..Len(o) |-> InputFile(InputNames[o[k]], t[k])] :
                t \in [1..Len(o) -> InputTexts]} :
            o \in {q \in SeqsUpTo(1..Len(InputNames), MaxInputs) : Increasing(q)} }

(***************************************************************************)
(* log                                                                     *)
(***************************************************************************)
\* one call of log(message, type): the template of the message and the value
\* interpolated into it
Line(type, text, arg) == [type |-> type, text |-> text, arg |-> arg]

(***************************************************************************)
(* loadLibraries                                                           *)
(***************************************************************************)
\* the script starts: setupOutputFolder, the checks of the folders, and the
\* first line of loadLibraries
StartGenerator ==
    /\ prog = "generate"
    /\ pc = "start"
    /\ pc' = "load"
    /\ fi' = 1
    /\ output' = << >>
    /\ logFile' = <<Line("INFO", "Loading definitions", Undefined)>>
    /\ UNCHANGED <<prog, run, disk, disk0, firstRun, resourceMap, json, parsed, written,
                   count, console, questionnaireMap, input, ii, lastRead, processedData,
                   combinedData, browser>>

\* questionnaireMap.set(r.url, r); questionnaireMap.set(r.url.split('|')[0], r)
RegisterQuestionnaire(m, o) ==
    MapSet(MapSet(m, Get(o.res.url), o), StripVersion(Get(o.res.url)), o)

\* items.forEach(r => { if (r.resourceType === 'Questionnaire' && r.url) ... }):
\* the map when forEach ends, and whether it ended by a TypeError (r undefined)
RECURSIVE IndexLibrary(_, _, _, _)
IndexLibrary(m, items, f, i) ==
    IF i > Len(items) THEN [map |-> m, threw |-> FALSE]
    ELSE IF ~Has(items[i]) THEN [map |-> m, threw |-> TRUE]
    ELSE IF items[i][1].resourceType = "Questionnaire" /\ Truthy(Get(items[i][1].url))
         THEN IndexLibrary(RegisterQuestionnaire(m, Obj(f, i, items[i][1])), items, f, i + 1)
         ELSE IndexLibrary(m, items, f, i + 1)

\* one iteration of files.forEach in loadLibraries
LoadLibrariesFile ==
    /\ prog = "generate"
    /\ pc = "load"
    /\ fi <= Len(disk)
    /\ IF ParseThrows(disk[fi])
       THEN /\ logFile' = Append(logFile, Line("WARN", "Failed to load Q", Undefined))
            /\ UNCHANGED questionnaireMap
       ELSE LET done == IndexLibrary(questionnaireMap, Flatten(JsonParse(disk[fi])), fi, 1)
            IN  /\ questionnaireMap' = done.map
                /\ logFile' = IF done.threw
                              THEN Append(logFile, Line("WARN", "Failed to load Q", Undefined))
                              ELSE logFile
    /\ fi' = fi + 1
    /\ UNCHANGED <<prog, pc, run, disk, disk0, firstRun, resourceMap, json, parsed, written,
                   count, console, input, ii, lastRead, processedData, combinedData, output, browser>>

\* a launch that does not wait for files.forEach to end
LaunchEarly ==
    /\ prog = "generate"
    /\ pc = "load"
    /\ browser' = "open"
    /\ pc' = "file"
    /\ ii' = 1
    /\ UNCHANGED <<prog, run, disk, disk0, firstRun, resourceMap, fi, json, parsed, written,
                   count, console, questionnaireMap, input, lastRead, processedData, combinedData,
                   logFile, output>>

\* loadLibraries has returned: puppeteer.launch, browser.newPage, page.on,
\* readdirSync(INPUT_DIR)
Launch ==
    /\ prog = "generate"
    /\ pc = "load"
    /\ fi > Len(disk)
    /\ browser' = "open"
    /\ pc' = "file"
    /\ ii' = 1
    /\ UNCHANGED <<prog, run, disk, disk0, firstRun, resourceMap, fi, json, parsed, written,
                   count, console, questionnaireMap, input, lastRead, processedData, combinedData,
                   logFile, output>>

(***************************************************************************)
(* normalizeFHIRData                                                       *)
(***************************************************************************)
\* an object created while input file f is processed
Made(by, f, i, r) == [src |-> [run |-> run, by |-> by, file |-> f, pos |-> i], res |-> r]

\* Array.prototype.filter: the positions a callback returned true for, in order
Filter(flags) == SelectSeq([i \in 1..Len(flags) |-> i], LAMBDA i : flags[i])

\* jsonData.entry.map(e => e.resource).filter(r => r), or [jsonData]
Resources(jsonData, f) ==
    IF jsonData.resourceType = "Bundle" /\ Has(jsonData.entry)
    THEN LET entry == jsonData.entry[1]
             kept == Filter([i \in 1..Len(entry) |-> Has(entry[i].resource)])
         IN  [k \in 1..Len(kept) |-> Made("input", f, kept[k], entry[kept[k]].resource[1])]
    ELSE <<Made("input", f, 0, jsonData)>>

\* OfType that collects with unshift: the matches in reverse order
OfTypeReversed(resources, type) ==
    LET kept == Filter([i \in 1..Len(resources) |-> resources[i].res.resourceType = type])
    IN  [k \in 1..Len(kept) |-> resources[kept[Len(kept) + 1 - k]]]

\* resources.filter(r => r.resourceType === type)
OfType(resources, type) ==
    LET kept == Filter([i \in 1..Len(resources) |-> resources[i].res.resourceType = type])
    IN  [k \in 1..Len(kept) |-> resources[kept[k]]]

\* resources.find(r => r.resourceType === type), as a slot
Find(resources, type) ==
    IF OfType(resources, type) = << >> THEN None ELSE Some(OfType(resources, type)[1])

\* Lookup without the second get
LookupExactOnly(ref) == MapGet(questionnaireMap, ref)

\* questionnaireMap.get(ref) || questionnaireMap.get(ref.split('|')[0])
Lookup(ref) ==
    IF MapHas(questionnaireMap, ref) THEN Some(questionnaireMap[ref])
    ELSE MapGet(questionnaireMap, StripVersion(ref))

\* { resourceType: "Questionnaire", status: "active", item: [] }
Stub(by, f, i) ==
    Made(by, f, i, [Res0 EXCEPT !.resourceType = "Questionnaire", !.item = Some(<< >>)])

\* { resourceType: "Patient", name: null }
PatientPlaceholder(f) ==
    Made("normalize", f, 0, [Res0 EXCEPT !.resourceType = "Patient", !.name = Some(Null)])

\* { resourceType: "CarePlan", category: null }
CarePlanPlaceholder(f) ==
    Made("normalize", f, 0, [Res0 EXCEPT !.resourceType = "CarePlan", !.category = Some(Null)])

\* OrPlaceholder without the substitution
OrPlaceholderForgotten(found, placeholder) == found

\* if (!found) found = placeholder
OrPlaceholder(found, placeholder) == IF Has(found) THEN found ELSE Some(placeholder)

\* the questionnaire after lines 70 and 82-85, as a slot
FoundQuestionnaire(resources) ==
    LET qResponse == Find(resources, "QuestionnaireResponse")
        questionnaire == Find(resources, "Questionnaire")
    IN  IF ~Has(questionnaire) /\ Has(qResponse)
           /\ Truthy(Get(qResponse[1].res.questionnaire))
        THEN Lookup(Get(qResponse[1].res.questionnaire))
        ELSE questionnaire

\* the value normalizeFHIRData(jsonData) returns for input file f
NormalizeFHIRData(jsonData, f) ==
    LET resources == Resources(jsonData, f)
        patient == Find(resources, "Patient")
        carePlan == Find(resources, "CarePlan")
        questionnaireResponses == OfType(resources, "QuestionnaireResponse")
        qResponse == Find(resources, "QuestionnaireResponse")
        questionnaire == FoundQuestionnaire(resources)
    IN  [fileName |-> IF Truthy(Get(jsonData.id)) THEN Get(jsonData.id) ELSE Str1("report"),
         patient |-> OrPlaceholder(patient, PatientPlaceholder(f)),
         carePlan |-> OrPlaceholder(carePlan, CarePlanPlaceholder(f)),
         questionnaire |-> IF Has(qResponse) /\ ~Has(questionnaire)
                           THEN Some(Stub("normalize", f, 0))
                           ELSE questionnaire,
         questionnaireResponse |-> qResponse,
         questionnaireResponses |-> questionnaireResponses]

\* the lines normalizeFHIRData(jsonData) logs
NormalizeLog(jsonData, f) ==
    LET resources == Resources(jsonData, f)
        qResponse == Find(resources, "QuestionnaireResponse")
    IN  IF Has(qResponse) /\ ~Has(FoundQuestionnaire(resources))
        THEN <<Line("WARN", "Definition not found for", Get(qResponse[1].res.questionnaire))>>
        ELSE << >>

(***************************************************************************)
(* The main loop: for (const file of files)                                *)
(***************************************************************************)
\* `Questionnaire ${i + 1}`, i + 1 being n
Numeral(n) == <<"1", "2", "3", "4", "5", "6", "7", "8", "9">>[n]
Positional(n) == <<"Questionnaire ", Numeral(n)>>

\* LastSegment without the split at '|'
LastSegmentWithVersion(ref) ==
    IF ref = Undefined THEN Undefined ELSE SplitLast(ref, "/")

\* currentQR.questionnaire?.split('/').pop().split('|')[0]
LastSegment(ref) ==
    IF ref = Undefined THEN Undefined ELSE StripVersion(SplitLast(ref, "/"))

\* questionnaire.title || <last segment> || `Questionnaire ${i + 1}`
Title(questionnaire, currentQR, n) ==
    IF Truthy(Get(questionnaire.res.title)) THEN Get(questionnaire.res.title)
    ELSE IF Truthy(LastSegment(Get(currentQR.res.questionnaire)))
         THEN LastSegment(Get(currentQR.res.questionnaire))
         ELSE Positional(n)

\* the questionnaire found for currentQR at lines 149-153, as a slot
FoundFor(currentQR) ==
    IF Truthy(Get(currentQR.res.questionnaire))
    THEN Lookup(Get(currentQR.res.questionnaire))
    ELSE None

\* what one iteration of the loop over the responses pushes
Pair(currentQR, f, n) ==
    LET questionnaire == IF Has(FoundFor(currentQR)) THEN FoundFor(currentQR)[1]
                         ELSE Stub("main", f, n)
    IN  [questionnaireResponse |-> currentQR,
         questionnaire |-> questionnaire,
         title |-> Title(questionnaire, currentQR, n)]

\* const combinedQRData, when the loop over the responses ends
CombinedQRData(responses, f) == [n \in 1..Len(responses) |-> Pair(responses[n], f, n)]

\* the lines the loop over the responses logs, from response n on
RECURSIVE CombinedLog(_, _)
CombinedLog(responses, n) ==
    IF n > Len(responses) THEN << >>
    ELSE <<Line("INFO", "  Processing QR", Get(responses[n].res.questionnaire))>>
         \o (IF Has(FoundFor(responses[n])) THEN << >>
             ELSE <<Line("WARN", "  Definition not found for",
                         Get(responses[n].res.questionnaire))>>)
         \o CombinedLog(responses, n + 1)

\* { ...processedData, combinedQuestionnaires, isMultipleQR }
CombinedData(processed, f) ==
    [fileName |-> processed.fileName,
     patient |-> processed.patient,
     carePlan |-> processed.carePlan,
     questionnaire |-> processed.questionnaire,
     questionnaireResponse |-> processed.questionnaireResponse,
     questionnaireResponses |-> processed.questionnaireResponses,
     combinedQuestionnaires |-> CombinedQRData(processed.questionnaireResponses, f),
     isMultipleQR |-> Len(processed.questionnaireResponses) > 1]

MaxMessage == 3

\* error.message of a rejected page.evaluate: the text of the error thrown
\* in the page, short or long
ErrorMessages == {[k \in 1..n |-> "e"] : n \in {1, MaxMessage}}

\* jsonData.resourceType, jsonData being null: a TypeError
NormalizeThrows(jsonData) == jsonData = NullJson

\* the test of line 137 that is always false
NoResponsesNever(processed) == FALSE

\* !processedData.questionnaireResponses || processedData.questionnaireResponses.length === 0
NoResponses(processed) == Len(processed.questionnaireResponses) = 0

\* a loop body that registers the stub of normalizeFHIRData under the
\* reference it stands for
MapAfterFileCachingStub(m, processed) ==
    IF /\ Has(processed.questionnaire)
       /\ processed.questionnaire[1].src.by = "normalize"
       /\ Truthy(Get(processed.questionnaireResponse[1].res.questionnaire))
    THEN MapSet(m, Get(processed.questionnaireResponse[1].res.questionnaire),
                processed.questionnaire[1])
    ELSE m

\* questionnaireMap when the loop body has run: normalizeFHIRData and the
\* loop over the responses call questionnaireMap.get only
MapAfterFile(m, processed) == m

\* a catch clause that logs and leaves the loop
CaughtAborts(what) ==
    /\ logFile' = Append(logFile, Line("ERROR", "System Error", what))
    /\ pc' = "done"
    /\ ii' = ii

\* catch (error) { log(`System Error: ${error.message}`, 'ERROR') }, and the
\* loop goes to the next file
Caught(what) ==
    /\ logFile' = Append(logFile, Line("ERROR", "System Error", what))
    /\ pc' = "file"
    /\ ii' = ii + 1

\* the synchronous head of one iteration: lines 132-172
ReadFile ==
    /\ prog = "generate"
    /\ pc = "file"
    /\ ii <= Len(input)
    /\ lastRead' = ii
    /\ questionnaireMap' =
          IF ~input[ii].ok \/ NormalizeThrows(input[ii].value) THEN questionnaireMap
          ELSE MapAfterFile(questionnaireMap, NormalizeFHIRData(input[ii].value, ii))
    /\ IF ~input[ii].ok
       THEN /\ Caught(Str1("JSON.parse"))
            /\ processedData' = None
            /\ combinedData' = None
       ELSE IF NormalizeThrows(input[ii].value)
       THEN /\ logFile' = logFile \o <<Line("HEADER", "Processing", input[ii].name),
                                       Line("ERROR", "System Error", Str1("TypeError"))>>
            /\ pc' = "file"
            /\ ii' = ii + 1
            /\ processedData' = None
            /\ combinedData' = None
       ELSE LET rawJson == input[ii].value
                processed == NormalizeFHIRData(rawJson, ii)
                head == <<Line("HEADER", "Processing", input[ii].name)>>
                          \o NormalizeLog(rawJson, ii)
            IN  /\ processedData' = Some(processed)
                /\ IF NoResponses(processed)
                   THEN /\ logFile' = logFile \o head
                                        \o <<Line("WARN", "Skipping: No QuestionnaireResponse found.", Undefined)>>
                        /\ pc' = "file"
                        /\ ii' = ii + 1
                        /\ combinedData' = None
                   ELSE /\ logFile' = logFile \o head
                                        \o CombinedLog(processed.questionnaireResponses, 1)
                        /\ combinedData' = Some(CombinedData(processed, ii))
                        /\ pc' = "goto"
                        /\ UNCHANGED ii
    /\ UNCHANGED <<prog, run, disk, disk0, firstRun, resourceMap, fi, json, parsed, written,
                   count, console, input, output, browser>>

\* await page.goto, addStyleTag, addScriptTag (three), waitForFunction: the
\* page is loaded, or one of the calls rejects
PageLoad ==
    /\ prog = "generate"
    /\ pc = "goto"
    /\ \/ /\ pc' = "evaluate"
          /\ UNCHANGED <<ii, logFile>>
       \/ Caught(Str1("page.goto"))
    /\ UNCHANGED <<prog, run, disk, disk0, firstRun, resourceMap, fi, json, parsed, written,
                   count, console, questionnaireMap, input, lastRead, processedData, combinedData,
                   output, browser>>

\* await page.evaluate(data => window.renderFromData(data), combinedData)
RenderCall ==
    /\ prog = "generate"
    /\ pc = "evaluate"
    /\ \/ /\ pc' = "wait"
          /\ UNCHANGED <<ii, logFile>>
       \/ \E what \in ErrorMessages : Caught(what)
    /\ UNCHANGED <<prog, run, disk, disk0, firstRun, resourceMap, fi, json, parsed, written,
                   count, console, questionnaireMap, input, lastRead, processedData, combinedData,
                   output, browser>>

\* await page.waitForSelector('#render-complete', { timeout: 15000 })
WaitComplete ==
    /\ prog = "generate"
    /\ pc = "wait"
    /\ \/ /\ pc' = "pdf"
          /\ UNCHANGED <<ii, logFile>>
       \/ /\ logFile' = Append(logFile, Line("ERROR", "Render timeout.", Undefined))
          /\ pc' = "file"
          /\ ii' = ii + 1
    /\ UNCHANGED <<prog, run, disk, disk0, firstRun, resourceMap, fi, json, parsed, written,
                   count, console, questionnaireMap, input, lastRead, processedData, combinedData,
                   output, browser>>

ToLowerCase(c) == CASE c = "A" -> "a" [] c = "B" -> "b" [] OTHER -> c

\* the characters /[^a-zA-Z0-9\-_]/ does not match
Kept(c) == c \in {"a", "b", "A", "B", "0", "1", "-", "_"}

\* outName.replace(/[^a-zA-Z0-9\-_]/g, '-').toLowerCase()
Dashed(name) == [i \in 1..Len(name) |-> IF Kept(name[i]) THEN ToLowerCase(name[i]) ELSE "-"]

\* outName.replace(/-+/g, '-')
RECURSIVE Collapsed(_)
Collapsed(name) ==
    IF Len(name) <= 1 THEN name
    ELSE IF name[1] = "-" /\ name[2] = "-" THEN Collapsed(Tail(name))
    ELSE <<name[1]>> \o Collapsed(Tail(name))

\* outName.replace(/^-+|-+$/g, '')
RECURSIVE Trimmed(_)
Trimmed(name) ==
    IF name = << >> THEN name
    ELSE IF name[1] = "-" THEN Trimmed(Tail(name))
    ELSE IF name[Len(name)] = "-" THEN Trimmed(SubSeq(name, 1, Len(name) - 1))
    ELSE name

\* lines 189-193, name being file without its '.json'
OutName(name) == Trimmed(Collapsed(Dashed(name)))

\* await page.pdf({ path: ... }) and the line that reports it
WritePdf ==
    /\ prog = "generate"
    /\ pc = "pdf"
    /\ \/ /\ output' = Append(output, [path |-> OutName(input[ii].name), file |-> ii])
          /\ logFile' = Append(logFile, Line("SUCCESS", "Saved", OutName(input[ii].name)))
          /\ pc' = "file"
          /\ ii' = ii + 1
       \/ /\ Caught(Str1("page.pdf"))
          /\ UNCHANGED output
    /\ UNCHANGED <<prog, run, disk, disk0, firstRun, resourceMap, fi, json, parsed, written,
                   count, console, questionnaireMap, input, lastRead, processedData, combinedData,
                   browser>>

\* the loop has ended: await browser.close()
CloseBrowser ==
    /\ prog = "generate"
    /\ pc = "file"
    /\ ii > Len(input)
    /\ browser' = "closed"
    /\ pc' = "done"
    /\ UNCHANGED <<prog, run, disk, disk0, firstRun, resourceMap, fi, json, parsed, written,
                   count, console, questionnaireMap, input, ii, lastRead, processedData,
                   combinedData, logFile, output>>

InitGenerate ==
    /\ prog = "generate"
    /\ pc = "start"
    /\ run = 1
    /\ disk \in SeqsUpTo(LibraryFiles, MaxDefinitions)
    /\ disk0 = disk
    /\ firstRun = disk
    /\ resourceMap = EmptyMap
    /\ fi = 1
    /\ json = None
    /\ parsed = None
    /\ written = {}
    /\ count = 0
    /\ console = 0
    /\ questionnaireMap = EmptyMap
    /\ input \in InputDirs
    /\ ii = 1
    /\ lastRead = 0
    /\ processedData = None
    /\ combinedData = None
    /\ logFile = << >>
    /\ output = << >>
    /\ browser = "none"

NextGenerate ==
    \/ StartGenerator
    \/ LoadLibrariesFile
    \/ Launch
    \/ ReadFile
    \/ PageLoad
    \/ RenderCall
    \/ WaitComplete
    \/ WritePdf
    \/ CloseBrowser

SpecGenerate == InitGenerate /\ [][NextGenerate]_vars

(***************************************************************************)
(* Properties of the generator.                                            *)
(***************************************************************************)
\* the loop body has normalized input file lastRead
Normalized == prog = "generate" /\ Has(processedData)

\* the payload processedData was computed from
Payload == input[lastRead].value

IsBundle(v) == v.resourceType = "Bundle" /\ Has(v.entry)

\* the places of the payload's resource list: the entries that have a
\* resource, or place 0 for a payload that is no bundle
Places(v) ==
    IF IsBundle(v) THEN {i \in 1..Len(v.entry[1]) : Has(v.entry[1][i].resource)} ELSE {0}

ResourceAt(v, i) == IF i = 0 THEN v ELSE v.entry[1][i].resource[1]

PlacesOfType(v, type) == {i \in Places(v) : ResourceAt(v, i).resourceType = type}

\* o is the resource at place i of the payload
IsResourceAt(o, i) ==
    /\ o.src.by = "input" /\ o.src.file = lastRead /\ o.src.pos = i
    /\ o.res = ResourceAt(Payload, i)

\* C7: normalizeFHIRData returns a patient and a carePlan for every payload:
\* the first resource of the type in the resource list, or, when there is
\* none, the placeholder {resourceType: "Patient", name: null}, respectively
\* {resourceType: "CarePlan", category: null}; a payload without a Patient
\* is normalized, not caught as an error.
C7_PatientAndContextNeverNull ==
    /\ Normalized =>
          /\ Has(processedData[1].patient)
          /\ Has(processedData[1].carePlan)
          /\ IF PlacesOfType(Payload, "Patient") # {}
             THEN IsResourceAt(processedData[1].patient[1],
                               SetMin(PlacesOfType(Payload, "Patient")))
             ELSE /\ processedData[1].patient[1].res.resourceType = "Patient"
                  /\ processedData[1].patient[1].res.name = Some(Null)
                  /\ processedData[1].patient[1].src.by = "normalize"
          /\ IF PlacesOfType(Payload, "CarePlan") # {}
             THEN IsResourceAt(processedData[1].carePlan[1],
                               SetMin(PlacesOfType(Payload, "CarePlan")))
             ELSE /\ processedData[1].carePlan[1].res.resourceType = "CarePlan"
                  /\ processedData[1].carePlan[1].res.category = Some(Null)
                  /\ processedData[1].carePlan[1].src.by = "normalize"
    /\ (prog = "generate" /\ lastRead > 0 /\ input[lastRead].ok
          /\ ~NormalizeThrows(input[lastRead].value)) => Has(processedData)

\* a bundle with two patients and two care plans was normalized after a
\* payload without either
C7_Witness ==
    /\ Normalized
    /\ lastRead = 2
    /\ Cardinality(PlacesOfType(Payload, "Patient")) > 1
    /\ Cardinality(PlacesOfType(Payload, "CarePlan")) > 1
    /\ input[1].ok
    /\ PlacesOfType(input[1].value, "Patient") = {}
    /\ Len(logFile) > 0 /\ logFile[Len(logFile)].type # "ERROR"

\* C8: questionnaireResponses is the subsequence of the payload's resource
\* list made of its QuestionnaireResponse resources, in order, possibly
\* empty; questionnaireResponse is its first element, absent when it is empty.
C8_ResponsesInOrder ==
    Normalized =>
        LET responses == processedData[1].questionnaireResponses
        IN  /\ {responses[k].src.pos : k \in 1..Len(responses)}
                 = PlacesOfType(Payload, "QuestionnaireResponse")
            /\ \A k \in 1..Len(responses) : IsResourceAt(responses[k], responses[k].src.pos)
            /\ \A j, k \in 1..Len(responses) :
                  j < k => responses[j].src.pos < responses[k].src.pos
            /\ processedData[1].questionnaireResponse =
                  IF Len(responses) = 0 THEN None ELSE Some(responses[1])

\* three responses among other resources, after a payload without any
C8_Witness ==
    /\ Normalized
    /\ lastRead = 2
    /\ Len(processedData[1].questionnaireResponses) = 3
    /\ Cardinality(Places(Payload)) > 3
    /\ processedData[1].questionnaireResponses[2].src.pos
         > processedData[1].questionnaireResponses[1].src.pos + 1
    /\ input[1].ok /\ PlacesOfType(input[1].value, "QuestionnaireResponse") = {}

\* the loop body has assembled combinedData for input file lastRead
Assembled == prog = "generate" /\ Has(combinedData)

\* the lines logged since the loop body started on the current file
RECURSIVE SinceHeader(_)
SinceHeader(lines) ==
    IF lines = << >> \/ lines[Len(lines)].type = "HEADER" THEN << >>
    ELSE Append(SinceHeader(SubSeq(lines, 1, Len(lines) - 1)), lines[Len(lines)])

IsStub(o) ==
    /\ o.res.resourceType = "Questionnaire"
    /\ o.res.item = Some(<< >>)
    /\ o.res.url = None
    /\ o.src.by = "main"

\* C9: the pairs are as many as the responses and in their order; the
\* questionnaire of a pair is the index entry of the response's reference,
\* else the index entry of the version-stripped reference, else a stub
\* Questionnaire with an empty item list; a missing definition is reported
\* by a warning and the file goes on to be rendered.
C9_PairedQuestionnaire ==
    Assembled =>
        LET responses == processedData[1].questionnaireResponses
            pairs == combinedData[1].combinedQuestionnaires
        IN  /\ Len(pairs) = Len(responses)
            /\ \A n \in 1..Len(pairs) :
                  LET ref == Get(responses[n].res.questionnaire)
                  IN  /\ pairs[n].questionnaireResponse = responses[n]
                      /\ IF Truthy(ref) /\ ref \in DOMAIN questionnaireMap
                         THEN pairs[n].questionnaire = questionnaireMap[ref]
                         ELSE IF Truthy(ref) /\ StripVersion(ref) \in DOMAIN questionnaireMap
                         THEN pairs[n].questionnaire = questionnaireMap[StripVersion(ref)]
                         ELSE /\ IsStub(pairs[n].questionnaire)
                              /\ pc = "goto" =>
                                    \E k \in 1..Len(SinceHeader(logFile)) :
                                        SinceHeader(logFile)[k] =
                                            Line("WARN", "  Definition not found for", ref)
            /\ pc = "goto" =>
                  \A k \in 1..Len(SinceHeader(logFile)) :
                      SinceHeader(logFile)[k].type \in {"INFO", "WARN"}

\* one file gave a pair by the full reference, a pair by the stripped
\* reference and a stubbed pair, and is about to be rendered
C9_Witness ==
    /\ Assembled
    /\ pc = "goto"
    /\ LET responses == processedData[1].questionnaireResponses
           pairs == combinedData[1].combinedQuestionnaires
       IN  /\ \E n \in 1..Len(pairs) :
                 Get(responses[n].res.questionnaire) \in DOMAIN questionnaireMap
           /\ \E n \in 1..Len(pairs) :
                 /\ Get(responses[n].res.questionnaire) \notin DOMAIN questionnaireMap
                 /\ ~IsStub(pairs[n].questionnaire)
           /\ \E n \in 1..Len(pairs) : n > 1 /\ IsStub(pairs[n].questionnaire)

\* the part of ref after its last '/', cut before its first '|'
SegmentOf(ref) ==
    LET start == CHOOSE i \in 1..(Len(ref) + 1) :
                    /\ i = 1 \/ ref[i - 1] = "/"
                    /\ \A j \in i..Len(ref) : ref[j] # "/"
        stop == CHOOSE j \in (start - 1)..Len(ref) :
                    /\ j = Len(ref) \/ ref[j + 1] = "|"
                    /\ \A k \in start..j : ref[k] # "|"
    IN  [k \in 1..(stop - start + 1) |-> ref[start + k - 1]]

\* C10: the title of the N-th pair is the questionnaire's title if it has
\* one, else the last path segment of the response's reference without its
\* version suffix if that is not empty, else "Questionnaire N", N counted
\* from 1.
C10_TitleFallbacks ==
    Assembled =>
        \A n \in 1..Len(combinedData[1].combinedQuestionnaires) :
            LET pair == combinedData[1].combinedQuestionnaires[n]
                title == pair.questionnaire.res.title
                ref == pair.questionnaireResponse.res.questionnaire
            IN  pair.title =
                    IF Has(title) /\ title[1] # << >> THEN title[1]
                    ELSE IF Has(ref) /\ SegmentOf(ref[1]) # << >> THEN SegmentOf(ref[1])
                    ELSE <<"Questionnaire ", <<"1", "2", "3", "4", "5", "6", "7", "8", "9">>[n]>>

\* the three sources of a title in one file: a title, a segment under an
\* empty or missing title, and the position of a later pair
C10_Witness ==
    /\ Assembled
    /\ LET pairs == combinedData[1].combinedQuestionnaires
       IN  /\ \E n \in 1..Len(pairs) : pairs[n].title = Str1("T")
           /\ \E n \in 1..Len(pairs) :
                 /\ ~IsStub(pairs[n].questionnaire)
                 /\ pairs[n].title = Str1("q")
           /\ \E n \in 1..Len(pairs) : n > 1 /\ pairs[n].title = <<"Questionnaire ", "3">>

\* the loop body has normalized input file lastRead and found no response
SkipWorthy ==
    /\ prog = "generate" /\ lastRead > 0
    /\ input[lastRead].ok /\ ~NormalizeThrows(Payload)
    /\ PlacesOfType(Payload, "QuestionnaireResponse") = {}

\* C11: a payload without any QuestionnaireResponse is normalized to an
\* empty questionnaireResponses list and skipped: the only line logged after
\* the file's header is the warning, no rendering step is entered and no
\* PDF is written for the file, and the loop stands at the next file.
C11_NoResponseSkipped ==
    SkipWorthy =>
        /\ Has(processedData)
        /\ processedData[1].questionnaireResponses = << >>
        /\ processedData[1].questionnaireResponse = None
        /\ combinedData = None
        /\ pc \in {"file", "done"}
        /\ ii = lastRead + 1
        /\ SinceHeader(logFile)
             = <<Line("WARN", "Skipping: No QuestionnaireResponse found.", Undefined)>>
        /\ \A k \in 1..Len(output) : output[k].file # lastRead

\* the first of two files was skipped and the loop stands at the second
C11_Witness ==
    /\ SkipWorthy
    /\ lastRead = 1
    /\ pc = "file"
    /\ ii = 2
    /\ Len(input) = 2

\* the keys the loader registers o under
KeysOf(o) == {Get(o.res.url), StripVersion(Get(o.res.url))}

\* the resources registered under key k
RegisteredUnder(k) == {o \in Registered : k \in KeysOf(o)}

\* loading file f ends in the catch clause of the loader
LoadThrows(f) ==
    \/ ParseThrows(disk[f])
    \/ /\ prog = "generate"
       /\ \E i \in 1..Len(Flatten(JsonParse(disk[f]))) : ~Has(Flatten(JsonParse(disk[f]))[i])

\* the warnings the loader has emitted
LoadWarnings ==
    IF prog = "expand" THEN console
    ELSE Len(SelectSeq(logFile, LAMBDA l : l.text = "Failed to load Q"))

\* C12: once the index is built its keys are the full and the
\* version-stripped urls of the registered resources, and each key maps to
\* the resource registered last under it; a directory whose files all load
\* produces no warning, whatever keys its resources share.
C12_LastWriteWins ==
    IndexBuilt =>
        /\ DOMAIN Index = UNION {KeysOf(o) : o \in Registered}
        /\ \A k \in DOMAIN Index :
              /\ Index[k].src \in {o.src : o \in RegisteredUnder(k)}
              /\ \A o \in RegisteredUnder(k) : ~LoadedAfter(Index[k], o)
        /\ (\A f \in 1..Len(disk) : ~LoadThrows(f)) => LoadWarnings = 0

\* two resources of different files share a full url, two others share
\* only the version-stripped url, and every file loaded
C12_Witness ==
    /\ IndexBuilt
    /\ \A f \in 1..Len(disk) : ~LoadThrows(f)
    /\ \E o1, o2 \in Registered :
          /\ o1.src.file < o2.src.file
          /\ Get(o1.res.url) = Get(o2.res.url)
    /\ \E o1, o2 \in Registered :
          /\ LoadedAfter(o1, o2)
          /\ Get(o1.res.url) # Get(o2.res.url)
          /\ StripVersion(Get(o1.res.url)) = StripVersion(Get(o2.res.url))

\* the steps of one iteration that drive the page
RenderSteps == {"goto", "evaluate", "wait", "pdf"}

\* the files of the definitions directory whose loading ended in the catch clause
ThrowingFiles == {f \in 1..Len(disk) : LoadThrows(f)}

\* where the scripts stand between the files
BetweenFiles ==
    /\ prog = "generate" =>
          /\ pc = "file" => ii = lastRead + 1
          /\ pc \in RenderSteps => ii = lastRead
          /\ pc = "done" => lastRead = Len(input) /\ ii = Len(input) + 1
          /\ browser = "closed" <=> pc = "done"
    /\ IndexBuilt =>
          /\ \A o \in Registered : KeysOf(o) \subseteq DOMAIN Index
          /\ LoadWarnings = Cardinality(ThrowingFiles)
                + IF prog = "expand"
                  THEN Cardinality({f \in 1..(fi - 1) : ParseThrows(disk[f])})
                  ELSE 0

\* what a step does that takes the loop from one file to the next
FileEnds ==
    /\ lastRead' # lastRead => lastRead' = lastRead + 1
    /\ ii' # ii =>
          /\ ii' = ii + 1
          /\ lastRead' = ii
          /\ pc' = "file"
          /\ \/ /\ output' = Append(output, [path |-> OutName(input[ii].name), file |-> ii])
                /\ logFile'[Len(logFile')].type = "SUCCESS"
             \/ /\ output' = output
                /\ Len(logFile') > Len(logFile)
                /\ logFile'[Len(logFile')].type \in {"ERROR", "WARN"}
    /\ output' # output => ii' # ii

C14_ErrorMessageTruncated ==
    \A k \in 1..Len(logFile) :
        logFile[k].text = "System Error" => Len(logFile[k].arg) < MaxMessage

\* the places of definitional file f that hold a resource the running
\* script indexes
Indexable(f) ==
    LET items == Flatten(JsonParse(disk[f]))
    IN  {i \in 1..Len(items) :
            /\ Has(items[i])
            /\ Truthy(Get(items[i][1].url))
            /\ prog = "generate" => items[i][1].resourceType = "Questionnaire"}

\* C15: an entry without a resource raises no error and hides no other
\* entry: once the index is built every indexable resource of every file
\* that parses is a key of the index and only the files that do not parse
\* were warned about; normalizeFHIRData extracts every resource of the
\* payload's entries.
C15_ResourcelessEntriesFiltered ==
    /\ IndexBuilt =>
          /\ \A f \in 1..Len(disk) :
                ~ParseThrows(disk[f]) =>
                    \A i \in Indexable(f) :
                        Get(Flatten(JsonParse(disk[f]))[i][1].url) \in DOMAIN Index
          /\ prog = "generate" =>
                LoadWarnings = Cardinality({f \in 1..Len(disk) : ParseThrows(disk[f])})
    /\ Normalized =>
          /\ Len(processedData[1].questionnaireResponses)
                = Cardinality(PlacesOfType(Payload, "QuestionnaireResponse"))
          /\ pc = "goto" =>
                \A k \in 1..Len(SinceHeader(logFile)) : SinceHeader(logFile)[k].type # "ERROR"

\* the order of the steps that drive the page
StepOrder == {<<"goto", "evaluate">>, <<"evaluate", "wait">>, <<"wait", "pdf">>}

\* where the generator stands with respect to its two phases
InPhase ==
    prog = "generate" =>
        /\ (lastRead > 0 \/ pc \notin {"start", "load"}) => fi = Len(disk) + 1
        /\ pc \in RenderSteps => lastRead = ii /\ Has(combinedData)

\* what a step of the generator may do to the phases and to the file in hand
InTurn ==
    prog = "generate" =>
        /\ questionnaireMap' # questionnaireMap => pc = "load" /\ lastRead = 0
        /\ lastRead' # lastRead => pc = "file" /\ lastRead' = ii
        /\ (pc' \in RenderSteps /\ pc' # pc) =>
              /\ ii' = ii /\ lastRead' = ii
              /\ IF pc \in RenderSteps THEN <<pc, pc'>> \in StepOrder
                 ELSE pc = "file" /\ pc' = "goto"
        /\ (pc \in RenderSteps /\ pc' \notin RenderSteps) => pc' = "file" /\ ii' = ii + 1

ObjectsOf(processed, pairs) ==
    {processed.patient[1], processed.carePlan[1]}
        \cup (IF Has(processed.questionnaire) THEN {processed.questionnaire[1]} ELSE {})
        \cup {processed.questionnaireResponses[n] : n \in 1..Len(processed.questionnaireResponses)}
        \cup {pairs[n].questionnaire : n \in 1..Len(pairs)}

\* o is an indexed resource, or was made while file f was processed
FromIndexOrFile(o, f) ==
    \/ o \in Indexed(questionnaireMap)
    \/ o.src.by \in {"input", "normalize", "main"} /\ o.src.file = f /\ o.src.run = run

\* C17: once loadLibraries has returned no step changes questionnaireMap,
\* neither its keys nor the resources they map to, and everything the
\* result of a file refers to is an indexed resource or an object made
\* while that file was processed.
C17_IndexReadOnly ==
    /\ [](Assembled => \A o \in ObjectsOf(processedData[1], combinedData[1].combinedQuestionnaires) :
                          FromIndexOrFile(o, lastRead))
    /\ [][(prog = "generate" /\ IndexBuilt) => questionnaireMap' = questionnaireMap]_vars

\* the second of two equal payloads was assembled against a non-empty
\* index, each with a reference the index resolves and one it does not
C17_Witness ==
    /\ Assembled
    /\ lastRead = 2
    /\ input[1].value = input[2].value
    /\ questionnaireMap # EmptyMap
    /\ LET pairs == combinedData[1].combinedQuestionnaires
       IN  /\ \E n \in 1..Len(pairs) : IsStub(pairs[n].questionnaire)
           /\ \E n \in 1..Len(pairs) : pairs[n].questionnaire \in Indexed(questionnaireMap)

\* C18: the questionnaire of the normalized unit is the questionnaire paired
\* with the first response.
C18_SameQuestionnaire ==
    Assembled =>
        /\ Has(processedData[1].questionnaire)
        /\ processedData[1].questionnaire[1].res
              = combinedData[1].combinedQuestionnaires[1].questionnaire.res

\* C19: no two PDFs written in one run have the same path.
C19_DistinctOutputPaths ==
    \A j, k \in 1..Len(output) : j # k => output[j].path # output[k].path

(***************************************************************************)
(* A run is a run of one of the two scripts.                               *)
(***************************************************************************)
Init == InitExpand \/ InitGenerate

Next == NextExpand \/ NextGenerate

Spec == Init /\ [][Next]_vars

====
